---- MODULE Spec2Model ----
(***************************************************************************)
(* Meter-reading tracker: the reading form's validation schema, the meter  *)
(* detail page (profile, readings, add / delete / baseline update) and the *)
(* dashboard (profile list, delete).                                       *)
(*                                                                         *)
(* Strings that the code inspects character by character (the form's       *)
(* fields) are sequences of one-character strings.  Each page is a         *)
(* component of its own, mounted alone; a state name the pages share       *)
(* (isSignedIn, authChecked, isLoading, error) is one variable, and each   *)
(* specification models one page view.                                     *)
(***************************************************************************)
EXTENDS Integers, Sequences, FiniteSets, TLC

VARIABLES
    page,         \* the route of this page view
    values,       \* validation alone: the candidate {date, previous, current}
    parseResult,  \* validation alone: NullRec, or the schema's result for values
    isSignedIn,   \* useAuth().isSignedIn: UNDEF until the provider resolves
    authChecked,  \* useState(false)
    isLoading,    \* useState(true)
    error,        \* useState<string | null>(null)
    profile,      \* meter page: useState<Profile | null>(null)
    readings,     \* meter page: useState<Reading[]>([])
    form,         \* reading form: the fields' current values
    formErrors,   \* reading form: field -> first message, NULL when none
    profiles,     \* dashboard: useState<Profile[]>([])
    dialog,       \* the id whose delete confirmation is open, 0 when none is
    inflight,     \* the async handlers that are suspended at an await
    nextReq,      \* number of async handlers started so far
    sent,         \* the requests the last step handed to fetch
    added,        \* the arguments the last step called onAddReading with
    last          \* the last step: its handler, and how it went

vars == << page, values, parseResult, isSignedIn, authChecked, isLoading, error,
           profile, readings, form, formErrors, profiles, dialog, inflight,
           nextReq, sent, added, last >>

\* null where the other values are strings, and where they are records.
NULL == "null"
NullRec == [null |-> TRUE]
UNDEF == "undefined"

----------------------------------------------------------------------------
(* Strings as sequences of characters *)

Digits == {"0", "1", "2", "3", "4", "5", "6", "7", "8", "9"}

WhiteSpace == {" "}

DigitVal(c) ==
    CASE c = "0" -> 0 [] c = "1" -> 1 [] c = "2" -> 2 [] c = "3" -> 3
      [] c = "4" -> 4 [] c = "5" -> 5 [] c = "6" -> 6 [] c = "7" -> 7
      [] c = "8" -> 8 [] c = "9" -> 9

\* A JavaScript number that parseInt can return: NaN, or an integer.
NaN == [nan |-> TRUE, n |-> 0]

Num(k) == [nan |-> FALSE, n |-> k]

isNaN(x) == x.nan

\* JavaScript's >= on numbers: false whenever an operand is NaN.
GreaterEq(a, b) == ~a.nan /\ ~b.nan /\ a.n >= b.n

RECURSIVE TrimStart(_)
TrimStart(s) ==
    IF s # << >> /\ Head(s) \in WhiteSpace THEN TrimStart(Tail(s)) ELSE s

\* The longest prefix of s made of decimal digits.
RECURSIVE DigitPrefix(_)
DigitPrefix(s) ==
    IF s # << >> /\ Head(s) \in Digits
    THEN << Head(s) >> \o DigitPrefix(Tail(s))
    ELSE << >>

RECURSIVE DecimalValue(_, _)
DecimalValue(ds, acc) ==
    IF ds = << >> THEN acc
    ELSE DecimalValue(Tail(ds), 10 * acc + DigitVal(Head(ds)))

\* parseInt(val) with no radix: leading white space is skipped, one sign is
\* read, then the longest run of decimal digits; whatever follows is ignored,
\* and no digit at all gives NaN.
parseInt(s) ==
    LET t == TrimStart(s)
        neg == t # << >> /\ Head(t) = "-"
        u == IF t # << >> /\ Head(t) \in {"+", "-"} THEN Tail(t) ELSE t
        ds == DigitPrefix(u)
    IN  IF ds = << >> THEN NaN
        ELSE Num(IF neg THEN 0 - DecimalValue(ds, 0) ELSE DecimalValue(ds, 0))

\* number.toString() of a non-negative integer.
RECURSIVE toString(_)
toString(k) ==
    LET d == << CHOOSE c \in Digits : DigitVal(c) = k % 10 >>
    IN  IF k < 10 THEN d ELSE toString(k \div 10) \o d

----------------------------------------------------------------------------
(* formSchema *)

MsgDate == "Date must be YYYY-MM-DD"
MsgPrevRequired == "Previous reading is required"
MsgPrevInteger == "Previous reading must be a positive integer"
MsgCurRequired == "Current reading is required"
MsgCurInteger == "Current reading must be a positive integer"
MsgOrder == "Current reading must be greater than or equal to previous reading"

\* /^\d{4}-\d{2}-\d{2}$/
DateRegex(s) ==
    /\ Len(s) = 10
    /\ \A i \in {1, 2, 3, 4, 6, 7, 9, 10} : s[i] \in Digits
    /\ s[5] = "-"
    /\ s[8] = "-"

\* (val) => !isNaN(parseInt(val)) && parseInt(val) >= 0
IntegerRefine(val) ==
    ~isNaN(parseInt(val)) /\ GreaterEq(parseInt(val), Num(0))

\* JavaScript's > on numbers.
Greater(a, b) == ~a.nan /\ ~b.nan /\ a.n > b.n

\* The cross-field rule written with > instead of >=.
OrderRefine_Strict(data) ==
    Greater(parseInt(data.current), parseInt(data.previous))

\* (data) => parseInt(data.current) >= parseInt(data.previous)
OrderRefine(data) ==
    GreaterEq(parseInt(data.current), parseInt(data.previous))

Issue(field, msg) == [path |-> field, message |-> msg]

\* The issues of one numeric field: .min(1, required) then .refine(integer).
\* A failed check leaves the value dirty, not aborted, so the refinement
\* still runs after a failed .min.
NumberIssues(field, val, required, integer) ==
    (IF Len(val) >= 1 THEN << >> ELSE << Issue(field, required) >>)
    \o (IF IntegerRefine(val) THEN << >> ELSE << Issue(field, integer) >>)

\* formSchema.safeParse(data): the issues in the order the schema raises
\* them; the object's refinement runs on dirty fields too.
formSchema(data) ==
    (IF DateRegex(data.date) THEN << >> ELSE << Issue("date", MsgDate) >>)
    \o NumberIssues("previous", data.previous, MsgPrevRequired, MsgPrevInteger)
    \o NumberIssues("current", data.current, MsgCurRequired, MsgCurInteger)
    \o (IF OrderRefine(data) THEN << >> ELSE << Issue("current", MsgOrder) >>)

Fields == {"date", "previous", "current"}

\* zodResolver: each field gets the message of its first issue.
FirstMessage(issues, field) ==
    LET at == {i \in 1..Len(issues) : issues[i].path = field}
    IN  IF at = {} THEN NULL
        ELSE issues[CHOOSE i \in at : \A j \in at : i <= j].message

zodResolver(data) ==
    LET issues == formSchema(data)
    IN  [f \in Fields |-> FirstMessage(issues, f)]

NoErrors == [f \in Fields |-> NULL]

----------------------------------------------------------------------------
(* Validation alone: the schema applied to candidate inputs *)

\* The longest previous / current string tried.
MaxLen == 2

Alphabet == {"1", "2", "-", ".", "a"}

RECURSIVE StringsUpTo(_)
StringsUpTo(k) ==
    IF k = 0 THEN {<< >>}
    ELSE LET shorter == StringsUpTo(k - 1)
         IN  shorter \cup {<< c >> \o s : c \in Alphabet, s \in {t \in shorter : Len(t) = k - 1}}

NumberInputs == StringsUpTo(MaxLen)

Date_2025_01_01 == << "2", "0", "2", "5", "-", "0", "1", "-", "0", "1" >>
Date_2025_02_01 == << "2", "0", "2", "5", "-", "0", "2", "-", "0", "1" >>
Date_2025_03_01 == << "2", "0", "2", "5", "-", "0", "3", "-", "0", "1" >>
Date_2025_02_30 == << "2", "0", "2", "5", "-", "0", "2", "-", "3", "0" >>
Date_2025_13_45 == << "2", "0", "2", "5", "-", "1", "3", "-", "4", "5" >>
Date_2025_1_1 == << "2", "0", "2", "5", "-", "1", "-", "1" >>
Date_01_01_2025 == << "0", "1", "-", "0", "1", "-", "2", "0", "2", "5" >>
Date_slashes == << "2", "0", "2", "5", "/", "0", "1", "/", "0", "1" >>
Date_trailing == << "2", "0", "2", "5", "-", "0", "1", "-", "0", "1", "a" >>

DateInputs ==
    { << >>, Date_2025_01_01, Date_2025_02_30, Date_2025_13_45, Date_2025_1_1,
      Date_01_01_2025, Date_slashes, Date_trailing }

InitPage ==
    /\ isSignedIn = UNDEF
    /\ authChecked = FALSE
    /\ isLoading = TRUE
    /\ error = NULL
    /\ profile = NullRec
    /\ readings = << >>
    /\ form = [date |-> Date_2025_01_01, previous |-> << >>, current |-> << >>]
    /\ formErrors = NoErrors
    /\ profiles = << >>
    /\ dialog = 0
    /\ inflight = {}
    /\ nextReq = 0
    /\ sent = {}
    /\ added = << >>
    /\ last = [event |-> "mount", kind |-> "none"]

pageVars == << page, isSignedIn, authChecked, isLoading, error, profile, readings,
               form, formErrors, profiles, dialog, inflight, nextReq, sent, added,
               last >>

InitValidate ==
    /\ page = "none"
    /\ values \in [date : DateInputs, previous : NumberInputs, current : NumberInputs]
    /\ parseResult = NullRec
    /\ InitPage

\* formSchema.safeParse(values): success with the data unchanged (the schema
\* has no transform), or the issues.
safeParse(data) ==
    LET issues == formSchema(data)
    IN  [success |-> issues = << >>, issues |-> issues, data |-> data]

Validate ==
    /\ parseResult = NullRec
    /\ parseResult' = safeParse(values)
    /\ UNCHANGED << values, pageVars >>

NextValidate == Validate

SpecValidate == InitValidate /\ [][NextValidate]_vars

----------------------------------------------------------------------------
(* What the pages share: the auth hook, the backend's answers *)

SIGNED_IN == "true"
SIGNED_OUT == "false"

\* useAuth().userId: a string exactly when the user is signed in.
userId == IF isSignedIn = SIGNED_IN THEN "user_1" ELSE NULL

\* getToken() resolves to a token, or to null when the session has none.
Tokens == {"token", NULL}

\* What useAuth().isSignedIn can be when the effect runs.
AuthSignals == {UNDEF, SIGNED_IN, SIGNED_OUT}

MsgNoToken == "Authentication token not found"
MsgNetwork == "Failed to fetch"
BackendDetail == "detail from the backend"

\* An answer to a request: a 2xx response; a response that is not ok, with
\* its status and the detail of its JSON body (NULL when it has none); or a
\* rejected fetch / an unreadable body, which throws.
OkResponse == [kind |-> "ok", status |-> 200, detail |-> NULL]

FailResponses ==
    { [kind |-> "fail", status |-> 500, detail |-> NULL],
      [kind |-> "fail", status |-> 401, detail |-> BackendDetail] }

ThrowResponse == [kind |-> "throw", status |-> 0, detail |-> MsgNetwork]

Responses == {OkResponse, ThrowResponse} \cup FailResponses

\* errorData.detail || `${generic}: ${response.status}`, or the message of
\* what was thrown.
ErrorMessage(resp, generic) ==
    IF resp.kind = "throw" THEN resp.detail
    ELSE IF resp.detail # NULL THEN resp.detail
    ELSE generic \o ": " \o ToString(resp.status)

\* How many asynchronous handlers one page view starts at most.
MaxRequests == 3

\* The handlers of one kind that are suspended at one await.
Pending(kind, pc) == {r \in inflight : r.kind = kind /\ r.pc = pc}

----------------------------------------------------------------------------
(* Meter detail page *)

ProfileId == 7

Today == Date_2025_02_01

InitialReadings == {NullRec, Num(5)}

\* The profile the backend holds for this page, with a baseline.
BackendProfile(initial) == [id |-> ProfileId, initial_reading |-> initial]

Reading(id, date, previous, current, consumption) ==
    [id |-> id, profile_id |-> ProfileId, date |-> date, previous |-> previous,
     current |-> current, consumption |-> consumption]

StoredReadingLists ==
    { << >>,
      << Reading(1, Date_2025_01_01, 0, 120, 120),
         Reading(2, Date_2025_02_01, 120, 330, 210) >> }

\* The page has passed its three early returns and shows the profile's
\* header, form and table.
Rendered ==
    /\ authChecked
    /\ isSignedIn = SIGNED_IN
    /\ ~isLoading
    /\ profile # NullRec

\* profile.initial_reading?.toString() || ""
Seed(p) ==
    IF p.initial_reading = NullRec THEN << >>
    ELSE toString(p.initial_reading.n)

\* The form's defaultValues, also what form.reset is given.
DefaultValues(p) == [date |-> Today, previous |-> Seed(p), current |-> << >>]

metaVars == << page, values, parseResult, profiles >>

\* No confirmation dialog is open: an open one is modal, and the rest of the
\* page takes no input.
NoDialog == dialog = 0

\* A request handed to fetch.
Fetch(r, method, path, token, body) ==
    [req |-> r, method |-> method, path |-> path, token |-> token, body |-> body]

NoBody == [none |-> TRUE]

Step(name, kind) == [event |-> name, kind |-> kind]

\* A step that resumes a handler with the answer to its fetch.
Answer(name, resp) == [event |-> name, kind |-> resp.kind, resp |-> resp]

\* new Date(date).getTime() of a date YYYY-MM-DD, counted in days of a
\* calendar of 31-day months: the table uses only the sign of a difference
\* of two times.
getTime(date) ==
    DecimalValue(SubSeq(date, 1, 4), 0) * 372
    + (DecimalValue(SubSeq(date, 6, 7), 0) - 1) * 31
    + DecimalValue(SubSeq(date, 9, 10), 0)

\* The table's comparator taking the earlier date first.
Compare_Ascending(a, b) == getTime(a.date) - getTime(b.date)

\* (a, b) => new Date(b.date).getTime() - new Date(a.date).getTime()
Compare(a, b) == getTime(b.date) - getTime(a.date)

\* One element put into an array that is in order: behind every element
\* that the comparator does not put behind it.
RECURSIVE Insert(_, _)
Insert(sorted, x) ==
    IF sorted = << >> THEN << x >>
    ELSE IF Compare(Head(sorted), x) > 0 THEN << x >> \o sorted
    ELSE << Head(sorted) >> \o Insert(Tail(sorted), x)

\* Array.prototype.sort with that comparator: stable, and in place, so what
\* it returns is also what the array it was called on holds afterwards.
RECURSIVE Sort(_)
Sort(array) ==
    IF array = << >> THEN << >>
    ELSE Insert(Sort(SubSeq(array, 1, Len(array) - 1)), array[Len(array)])

ClassHighest == "text-red-600 dark:text-red-400"
ClassHigh == "text-orange-600 dark:text-orange-400"
ClassMedium == "text-yellow-900 dark:text-yellow-400"
ClassNormal == "text-green-600 dark:text-green-400"

\* The class of the consumption cell with the thresholds taken strictly.
ClassName_Strict(consumption) ==
    IF consumption > 200 THEN ClassHighest
    ELSE IF consumption > 150 THEN ClassHigh
    ELSE IF consumption > 100 THEN ClassMedium
    ELSE ClassNormal

\* The class of the consumption cell with the lowest threshold tested first.
ClassName_WrongOrder(consumption) ==
    IF consumption >= 100 THEN ClassMedium
    ELSE IF consumption >= 150 THEN ClassHigh
    ELSE IF consumption >= 200 THEN ClassHighest
    ELSE ClassNormal

\* The class of the consumption cell.
ClassName(consumption) ==
    IF consumption >= 200 THEN ClassHighest
    ELSE IF consumption >= 150 THEN ClassHigh
    ELSE IF consumption >= 100 THEN ClassMedium
    ELSE ClassNormal

\* The rows ReadingsTable renders for the array it is given, top to bottom:
\* sorted, then mapped.
TableRows(array) ==
    LET sorted == Sort(array)
    IN  [i \in 1..Len(sorted) |->
            [key |-> sorted[i].id, date |-> sorted[i].date,
             previous |-> sorted[i].previous, current |-> sorted[i].current,
             consumption |-> sorted[i].consumption,
             className |-> ClassName(sorted[i].consumption)]]

\* The effect taking an auth signal that is not yet known for signed out.
CheckAuthAndFetchData_Collapsed(signedIn) ==
    /\ isSignedIn = UNDEF
    /\ signedIn = UNDEF => last.event = "mount"
    /\ isSignedIn' = signedIn
    /\ authChecked' = TRUE
    /\ IF signedIn # SIGNED_IN
       THEN /\ error' = "Please sign in to view meter details"
            /\ isLoading' = FALSE
            /\ last' = Step("effect", "signed-out")
            /\ UNCHANGED << inflight, nextReq >>
       ELSE /\ inflight' = inflight \cup {[req |-> nextReq + 1, kind |-> "load", pc |-> "token"]}
            /\ nextReq' = nextReq + 1
            /\ last' = Step("effect", "started")
            /\ UNCHANGED << error, isLoading >>
    /\ sent' = {}
    /\ added' = << >>
    /\ UNCHANGED << profile, readings, form, formErrors, dialog, metaVars >>

\* The effect ending the loading as soon as the user is known to be signed in.
CheckAuthAndFetchData_NoSpinner(signedIn) ==
    /\ isSignedIn = UNDEF
    /\ signedIn = UNDEF => last.event = "mount"
    /\ isSignedIn' = signedIn
    /\ IF signedIn = UNDEF
       THEN /\ last' = Step("effect", "pending")
            /\ UNCHANGED << authChecked, error, isLoading, inflight, nextReq >>
       ELSE /\ authChecked' = TRUE
            /\ isLoading' = FALSE
            /\ IF signedIn # SIGNED_IN
               THEN /\ error' = "Please sign in to view meter details"
                    /\ last' = Step("effect", "signed-out")
                    /\ UNCHANGED << inflight, nextReq >>
               ELSE /\ inflight' = inflight \cup
                           {[req |-> nextReq + 1, kind |-> "load", pc |-> "token"]}
                    /\ nextReq' = nextReq + 1
                    /\ last' = Step("effect", "started")
                    /\ UNCHANGED error
    /\ sent' = {}
    /\ added' = << >>
    /\ UNCHANGED << profile, readings, form, formErrors, dialog, metaVars >>

\* useEffect, run at mount and again when the auth provider resolves
\* isSignedIn, up to its first await: an unknown signal ends it at once,
\* signed out sets the error and ends the loading.
CheckAuthAndFetchData(signedIn) ==
    /\ isSignedIn = UNDEF
    /\ signedIn = UNDEF => last.event = "mount"
    /\ isSignedIn' = signedIn
    /\ IF signedIn = UNDEF
       THEN /\ last' = Step("effect", "pending")
            /\ UNCHANGED << authChecked, error, isLoading, inflight, nextReq >>
       ELSE /\ authChecked' = TRUE
            /\ IF signedIn # SIGNED_IN
               THEN /\ error' = "Please sign in to view meter details"
                    /\ isLoading' = FALSE
                    /\ last' = Step("effect", "signed-out")
                    /\ UNCHANGED << inflight, nextReq >>
               ELSE /\ inflight' = inflight \cup
                           {[req |-> nextReq + 1, kind |-> "load", pc |-> "token"]}
                    /\ nextReq' = nextReq + 1
                    /\ last' = Step("effect", "started")
                    /\ UNCHANGED << error, isLoading >>
    /\ sent' = {}
    /\ added' = << >>
    /\ UNCHANGED << profile, readings, form, formErrors, dialog, metaVars >>

\* The load asking for the profile and the readings at the same time.
LoadToken_Parallel(r, token) ==
    /\ r \in inflight /\ r.kind = "load" /\ r.pc = "token"
    /\ IF token = NULL
       THEN /\ error' = MsgNoToken
            /\ isLoading' = FALSE
            /\ inflight' = inflight \ {r}
            /\ sent' = {}
            /\ last' = Step("load-token", "no-token")
       ELSE /\ sent' = {Fetch(r.req, "GET", "/profiles/{id}", token, NoBody),
                        Fetch(r.req, "GET", "/readings?profile_id={id}", token, NoBody)}
            /\ inflight' = (inflight \ {r}) \cup
                   {[req |-> r.req, kind |-> "load", pc |-> "profile", token |-> token]}
            /\ last' = Step("load-token", "sent")
            /\ UNCHANGED << error, isLoading >>
    /\ added' = << >>
    /\ UNCHANGED << isSignedIn, authChecked, profile, readings, form, formErrors, nextReq,
                    dialog, metaVars >>

\* The load, resumed after await getToken(): no token throws, a token sends
\* GET /profiles/{id}.
LoadToken(r, token) ==
    /\ r \in inflight /\ r.kind = "load" /\ r.pc = "token"
    /\ IF token = NULL
       THEN /\ error' = MsgNoToken
            /\ isLoading' = FALSE
            /\ inflight' = inflight \ {r}
            /\ sent' = {}
            /\ last' = Step("load-token", "no-token")
       ELSE /\ sent' = {Fetch(r.req, "GET", "/profiles/{id}", token, NoBody)}
            /\ inflight' = (inflight \ {r}) \cup
                   {[req |-> r.req, kind |-> "load", pc |-> "profile", token |-> token]}
            /\ last' = Step("load-token", "sent")
            /\ UNCHANGED << error, isLoading >>
    /\ added' = << >>
    /\ UNCHANGED << isSignedIn, authChecked, profile, readings, form, formErrors, nextReq,
                    dialog, metaVars >>

\* The load, resumed with the answer to GET /profiles/{id}.
LoadProfile(r, resp, initial) ==
    /\ r \in inflight /\ r.kind = "load" /\ r.pc = "profile"
    /\ IF resp.kind = "ok"
       THEN /\ profile' = BackendProfile(initial)
            /\ sent' = {Fetch(r.req, "GET", "/readings?profile_id={id}", r.token, NoBody)}
            /\ inflight' = (inflight \ {r}) \cup {[r EXCEPT !.pc = "readings"]}
            /\ UNCHANGED << error, isLoading >>
       ELSE /\ error' = ErrorMessage(resp, "Failed to fetch profile")
            /\ isLoading' = FALSE
            /\ inflight' = inflight \ {r}
            /\ sent' = {}
            /\ UNCHANGED profile
    /\ last' = Answer("load-profile", resp)
    /\ added' = << >>
    /\ UNCHANGED << isSignedIn, authChecked, readings, form, formErrors, nextReq,
                    dialog, metaVars >>

\* The load, resumed with the answer to GET /readings?profile_id={id}; when
\* it ends the page renders the form, mounted with its defaultValues, and the
\* table, whose sort leaves the array of the readings state in its order.
LoadReadings(r, resp, stored) ==
    /\ r \in inflight /\ r.kind = "load" /\ r.pc = "readings"
    /\ IF resp.kind = "ok"
       THEN /\ readings' = Sort(stored)
            /\ error' = NULL
       ELSE /\ error' = ErrorMessage(resp, "Failed to fetch readings")
            /\ UNCHANGED readings
    /\ isLoading' = FALSE
    /\ form' = DefaultValues(profile)
    /\ inflight' = inflight \ {r}
    /\ last' = Answer("load-readings", resp)
    /\ sent' = {}
    /\ added' = << >>
    /\ UNCHANGED << isSignedIn, authChecked, profile, formErrors, nextReq, dialog, metaVars >>

\* What the user can have typed into the reading form.
FormInputs ==
    { [date |-> Date_2025_01_01, previous |-> << "1" >>, current |-> << "1", "2" >>],
      [date |-> Date_2025_01_01, previous |-> << "2" >>, current |-> << "1" >>],
      [date |-> Date_2025_01_01, previous |-> << "1", "." >>, current |-> << "2" >>] }

\* The payload with the two readings taken from each other's field.
Payload_Swapped(p, v) ==
    [profile_id |-> p.id, date |-> v.date, previous |-> parseInt(v.current).n,
     current |-> parseInt(v.previous).n]

\* The payload of POST /readings.
Payload(p, v) ==
    [profile_id |-> p.id, date |-> v.date, previous |-> parseInt(v.previous).n,
     current |-> parseInt(v.current).n]

\* onSubmit returning without a word when there is no token.
OnSubmit_SilentNoToken(v, token) ==
    IF token = NULL
    THEN /\ error' = NULL
         /\ sent' = {}
         /\ last' = Step("submit", "no-token")
         /\ UNCHANGED << inflight, nextReq >>
    ELSE /\ error' = NULL
         /\ sent' = {Fetch(nextReq + 1, "POST", "/readings", token, Payload(profile, v))}
         /\ inflight' = inflight \cup
                {[req |-> nextReq + 1, kind |-> "add", pc |-> "fetch", values |-> v,
                  profile |-> profile]}
         /\ nextReq' = nextReq + 1
         /\ last' = Step("submit", "sent")

\* onSubmit up to its fetch: signed out ends it; otherwise the error is
\* cleared and, with a token, the POST is sent. The handler keeps the values
\* and the profile of the render it was created in.
OnSubmit(v, token) ==
    IF isSignedIn # SIGNED_IN \/ userId = NULL
    THEN /\ error' = "Please sign in to add a reading"
         /\ sent' = {}
         /\ last' = Step("submit", "signed-out")
         /\ UNCHANGED << inflight, nextReq >>
    ELSE IF token = NULL
    THEN /\ error' = MsgNoToken
         /\ sent' = {}
         /\ last' = Step("submit", "no-token")
         /\ UNCHANGED << inflight, nextReq >>
    ELSE /\ error' = NULL
         /\ sent' = {Fetch(nextReq + 1, "POST", "/readings", token, Payload(profile, v))}
         /\ inflight' = inflight \cup
                {[req |-> nextReq + 1, kind |-> "add", pc |-> "fetch", values |-> v,
                  profile |-> profile]}
         /\ nextReq' = nextReq + 1
         /\ last' = Step("submit", "sent")

\* The submit handler calling onSubmit without looking at the resolver's
\* errors.
HandleSubmit_IgnoresErrors(v, token) ==
    /\ Rendered
    /\ NoDialog
    /\ nextReq < MaxRequests
    /\ form' = v
    /\ formErrors' = zodResolver(v)
    /\ OnSubmit(v, token)
    /\ added' = << >>
    /\ UNCHANGED << isSignedIn, authChecked, isLoading, profile, readings, dialog, metaVars >>

\* The user fills in the fields (their onChange) and submits:
\* form.handleSubmit(onSubmit) runs the resolver first, and calls onSubmit
\* only when it reports no error.
HandleSubmit(v, token) ==
    /\ Rendered
    /\ NoDialog
    /\ nextReq < MaxRequests
    /\ form' = v
    /\ LET errs == zodResolver(v)
       IN  IF errs # NoErrors
           THEN /\ formErrors' = errs
                /\ sent' = {}
                /\ last' = Step("submit", "invalid")
                /\ UNCHANGED << error, inflight, nextReq >>
           ELSE /\ formErrors' = NoErrors
                /\ OnSubmit(v, token)
    /\ added' = << >>
    /\ UNCHANGED << isSignedIn, authChecked, isLoading, profile, readings, dialog, metaVars >>

FirstNewId == 100

\* The reading the backend answers a POST with: its own id and consumption.
NewReading(r, consumption) ==
    LET body == Payload(r.profile, r.values)
    IN  [id |-> FirstNewId + r.req, profile_id |-> body.profile_id, date |-> body.date,
         previous |-> body.previous, current |-> body.current,
         consumption |-> consumption]

\* What the backend may report as a reading's consumption.
Consumptions(r) ==
    LET body == Payload(r.profile, r.values)
    IN  {body.current - body.previous, 150}

\* handleAddReading putting the new reading in the place of the readings of
\* its date.
HandleAddReading_ReplacesDate(newReading) ==
    /\ readings' = Sort(Append(SelectSeq(readings, LAMBDA x : x.date # newReading.date),
                               newReading))
    /\ error' = NULL

\* handleAddReading, and the render it causes: the table sorts the new array
\* of the readings state in place.
HandleAddReading(newReading) ==
    /\ readings' = Sort(Append(readings, newReading))
    /\ error' = NULL

\* onSubmit appending the reading whatever the answer was.
AddResponse_AppendsAlways(r, resp) ==
    /\ r \in inflight /\ r.kind = "add" /\ r.pc = "fetch"
    /\ \E consumption \in Consumptions(r) :
           /\ readings' = Append(readings, NewReading(r, consumption))
           /\ IF resp.kind = "ok"
              THEN /\ error' = NULL
                   /\ added' = << NewReading(r, consumption) >>
                   /\ form' = DefaultValues(r.profile)
                   /\ formErrors' = NoErrors
              ELSE /\ error' = ErrorMessage(resp, "Failed to add reading")
                   /\ added' = << >>
                   /\ UNCHANGED << form, formErrors >>
    /\ inflight' = inflight \ {r}
    /\ last' = Answer("add-response", resp)
    /\ sent' = {}
    /\ UNCHANGED << isSignedIn, authChecked, isLoading, profile, nextReq, dialog, metaVars >>

\* onSubmit, resumed with the answer to POST /readings.
AddResponse(r, resp) ==
    /\ r \in inflight /\ r.kind = "add" /\ r.pc = "fetch"
    /\ IF resp.kind = "ok"
       THEN \E consumption \in Consumptions(r) :
                /\ HandleAddReading(NewReading(r, consumption))
                /\ added' = << NewReading(r, consumption) >>
                /\ form' = DefaultValues(r.profile)
                /\ formErrors' = NoErrors
       ELSE /\ error' = ErrorMessage(resp, "Failed to add reading")
            /\ added' = << >>
            /\ UNCHANGED << readings, form, formErrors >>
    /\ inflight' = inflight \ {r}
    /\ last' = Answer("add-response", resp)
    /\ sent' = {}
    /\ UNCHANGED << isSignedIn, authChecked, isLoading, profile, nextReq, dialog, metaVars >>

RECURSIVE Filter(_, _)
Filter(seq, id) ==
    IF seq = << >> THEN << >>
    ELSE IF Head(seq).id # id THEN << Head(seq) >> \o Filter(Tail(seq), id)
    ELSE Filter(Tail(seq), id)

Ids(seq) == {seq[i].id : i \in 1..Len(seq)}

Range(seq) == {seq[i] : i \in 1..Len(seq)}

\* The row's trash button wired to onDeleteReading itself: no confirmation.
OpenReadingDialog_Deletes(readingId) ==
    /\ Rendered
    /\ NoDialog
    /\ readingId \in Ids(readings)
    /\ nextReq < MaxRequests
    /\ sent' = {Fetch(nextReq + 1, "DELETE", "/readings/{id}", "token", [id |-> readingId])}
    /\ inflight' = inflight \cup
           {[req |-> nextReq + 1, kind |-> "delete", pc |-> "fetch", readingId |-> readingId]}
    /\ nextReq' = nextReq + 1
    /\ last' = Step("delete", "sent")
    /\ added' = << >>
    /\ UNCHANGED << isSignedIn, authChecked, isLoading, error, profile, readings,
                    form, formErrors, dialog, metaVars >>

\* AlertDialogTrigger of a row: its confirmation opens.
OpenReadingDialog(readingId) ==
    /\ Rendered
    /\ NoDialog
    /\ readingId \in Ids(readings)
    /\ dialog' = readingId
    /\ last' = Step("open-dialog", "none")
    /\ sent' = {}
    /\ added' = << >>
    /\ UNCHANGED << isSignedIn, authChecked, isLoading, error, profile, readings,
                    form, formErrors, inflight, nextReq, metaVars >>

\* AlertDialogCancel: the confirmation closes and nothing else happens.
CancelReadingDialog ==
    /\ Rendered
    /\ dialog # 0
    /\ dialog' = 0
    /\ last' = Step("cancel-dialog", "none")
    /\ sent' = {}
    /\ added' = << >>
    /\ UNCHANGED << isSignedIn, authChecked, isLoading, error, profile, readings,
                    form, formErrors, inflight, nextReq, metaVars >>

\* handleDeleteReading removing the row before the backend has answered.
HandleDeleteReading_Optimistic(readingId, token) ==
    /\ Rendered
    /\ readingId \in Ids(readings)
    /\ dialog = readingId
    /\ dialog' = 0
    /\ nextReq < MaxRequests
    /\ readings' = Filter(readings, readingId)
    /\ IF token = NULL
       THEN /\ error' = MsgNoToken
            /\ sent' = {}
            /\ last' = Step("delete", "no-token")
            /\ UNCHANGED << inflight, nextReq >>
       ELSE /\ sent' = {Fetch(nextReq + 1, "DELETE", "/readings/{id}", token,
                              [id |-> readingId])}
            /\ inflight' = inflight \cup
                   {[req |-> nextReq + 1, kind |-> "delete", pc |-> "fetch",
                     readingId |-> readingId]}
            /\ nextReq' = nextReq + 1
            /\ last' = Step("delete", "sent")
            /\ UNCHANGED error
    /\ added' = << >>
    /\ UNCHANGED << isSignedIn, authChecked, isLoading, profile, form, formErrors,
                    metaVars >>

\* AlertDialogAction of a row's confirmation, which closes it:
\* handleDeleteReading up to its fetch.
HandleDeleteReading(readingId, token) ==
    /\ Rendered
    /\ readingId \in Ids(readings)
    /\ dialog = readingId
    /\ dialog' = 0
    /\ nextReq < MaxRequests
    /\ IF isSignedIn # SIGNED_IN \/ userId = NULL
       THEN /\ error' = "Please sign in to delete reading"
            /\ sent' = {}
            /\ last' = Step("delete", "signed-out")
            /\ UNCHANGED << inflight, nextReq >>
       ELSE IF token = NULL
       THEN /\ error' = MsgNoToken
            /\ sent' = {}
            /\ last' = Step("delete", "no-token")
            /\ UNCHANGED << inflight, nextReq >>
       ELSE /\ sent' = {Fetch(nextReq + 1, "DELETE", "/readings/{id}", token,
                              [id |-> readingId])}
            /\ inflight' = inflight \cup
                   {[req |-> nextReq + 1, kind |-> "delete", pc |-> "fetch",
                     readingId |-> readingId]}
            /\ nextReq' = nextReq + 1
            /\ last' = Step("delete", "sent")
            /\ UNCHANGED error
    /\ added' = << >>
    /\ UNCHANGED << isSignedIn, authChecked, isLoading, profile, readings, form,
                    formErrors, metaVars >>

\* handleDeleteReading, resumed with the answer to DELETE /readings/{id}.
DeleteResponse(r, resp) ==
    /\ r \in inflight /\ r.kind = "delete" /\ r.pc = "fetch"
    /\ IF resp.kind = "ok"
       THEN /\ readings' = Filter(readings, r.readingId)
            /\ error' = NULL
       ELSE /\ error' = ErrorMessage(resp, "Failed to delete reading")
            /\ UNCHANGED readings
    /\ dialog' = IF dialog \in Ids(readings') THEN dialog ELSE 0
    /\ inflight' = inflight \ {r}
    /\ last' = Answer("delete-response", resp)
    /\ sent' = {}
    /\ added' = << >>
    /\ UNCHANGED << isSignedIn, authChecked, isLoading, profile, form, formErrors,
                    nextReq, metaVars >>

\* What the user can have typed into the header's baseline input.
BaselineInputs == { << >>, << "a" >>, << "-", "1" >>, << "0" >>, << "0", "a" >> }

\* A step of the header's Save button, with what the input held.
SaveStep(kind, input) == [event |-> "save", kind |-> kind, input |-> input]

\* handleUpdateInitialReading up to its fetch, and how far it got.
UpdateOutcome(token) ==
    IF profile = NullRec THEN "no-profile"
    ELSE IF token = NULL THEN "no-token"
    ELSE "sent"

HandleUpdateInitialReading(initialReading, token) ==
    IF profile = NullRec
    THEN /\ sent' = {}
         /\ UNCHANGED << error, inflight, nextReq >>
    ELSE IF token = NULL
    THEN /\ error' = MsgNoToken
         /\ sent' = {}
         /\ UNCHANGED << inflight, nextReq >>
    ELSE /\ sent' = {Fetch(nextReq + 1, "PATCH", "/profiles/{id}/initial-reading", token,
                           [initial_reading |-> initialReading])}
         /\ inflight' = inflight \cup
                {[req |-> nextReq + 1, kind |-> "patch", pc |-> "fetch",
                  initialReading |-> initialReading]}
         /\ nextReq' = nextReq + 1
         /\ UNCHANGED error

\* handleSaveInitialReading: an input that is empty, or that parseInt reads
\* as NaN or as a negative number, is dropped; any other is handed on as
\* parseInt reads it.
HandleSaveInitialReading(input, token) ==
    /\ Rendered
    /\ NoDialog
    /\ nextReq < MaxRequests
    /\ IF input = << >> \/ isNaN(parseInt(input)) \/ ~GreaterEq(parseInt(input), Num(0))
       THEN /\ sent' = {}
            /\ last' = SaveStep("rejected", input)
            /\ UNCHANGED << error, inflight, nextReq >>
       ELSE /\ HandleUpdateInitialReading(parseInt(input).n, token)
            /\ last' = SaveStep(UpdateOutcome(token), input)
    /\ added' = << >>
    /\ UNCHANGED << isSignedIn, authChecked, isLoading, profile, readings, form,
                    formErrors, dialog, metaVars >>

\* handleUpdateInitialReading, resumed with the answer to the PATCH: the
\* backend returns the profile with the new baseline.
PatchResponse(r, resp) ==
    /\ r \in inflight /\ r.kind = "patch" /\ r.pc = "fetch"
    /\ IF resp.kind = "ok"
       THEN /\ profile' = BackendProfile(Num(r.initialReading))
            /\ error' = NULL
       ELSE /\ error' = ErrorMessage(resp, "Failed to update initial reading")
            /\ UNCHANGED profile
    /\ inflight' = inflight \ {r}
    /\ last' = Answer("patch-response", resp)
    /\ sent' = {}
    /\ added' = << >>
    /\ UNCHANGED << isSignedIn, authChecked, isLoading, readings, form, formErrors,
                    nextReq, dialog, metaVars >>

InitMeter ==
    /\ page = "/meter/[id]"
    /\ values = [date |-> << >>, previous |-> << >>, current |-> << >>]
    /\ parseResult = NullRec
    /\ InitPage

NextMeter ==
    \/ \E signedIn \in AuthSignals : CheckAuthAndFetchData(signedIn)
    \/ \E r \in Pending("load", "token"), token \in Tokens : LoadToken(r, token)
    \/ \E r \in Pending("load", "profile"), resp \in Responses, initial \in InitialReadings :
           LoadProfile(r, resp, initial)
    \/ \E r \in Pending("load", "readings"), resp \in Responses, stored \in StoredReadingLists :
           LoadReadings(r, resp, stored)
    \/ \E v \in FormInputs, token \in Tokens : HandleSubmit(v, token)
    \/ \E r \in Pending("add", "fetch"), resp \in Responses : AddResponse(r, resp)
    \/ \E id \in Ids(readings) : OpenReadingDialog(id)
    \/ CancelReadingDialog
    \/ \E id \in Ids(readings), token \in Tokens : HandleDeleteReading(id, token)
    \/ \E r \in Pending("delete", "fetch"), resp \in Responses : DeleteResponse(r, resp)
    \/ \E input \in BaselineInputs, token \in Tokens : HandleSaveInitialReading(input, token)
    \/ \E r \in Pending("patch", "fetch"), resp \in Responses : PatchResponse(r, resp)

SpecMeter == InitMeter /\ [][NextMeter]_vars

----------------------------------------------------------------------------
(* The readings table alone: the component rendered with an array *)

MaxRows == 3

TableReadings ==
    { Reading(1, Date_2025_01_01, 0, 99, 99),
      Reading(2, Date_2025_03_01, 0, 199, 199),
      Reading(3, Date_2025_02_01, 0, 200, 200),
      Reading(4, Date_2025_02_01, 50, 200, 150),
      Reading(5, Date_2025_01_01, 0, 100, 100),
      Reading(6, Date_2025_03_01, 1, 150, 149) }

\* The arrays of up to k of these readings, in any order.
RECURSIVE ArraysUpTo(_)
ArraysUpTo(k) ==
    IF k = 0 THEN {<< >>}
    ELSE LET shorter == ArraysUpTo(k - 1)
         IN  shorter \cup
             {Append(a, x) : a \in {b \in shorter : Len(b) = k - 1},
                             x \in TableReadings}

\* What the table can be given: each reading at most once.
TableArrays ==
    {a \in ArraysUpTo(MaxRows) : \A i, j \in 1..Len(a) : a[i] = a[j] => i = j}

InitTable ==
    /\ page = "none"
    /\ values = [date |-> << >>, previous |-> << >>, current |-> << >>]
    /\ parseResult = NullRec
    /\ isSignedIn = SIGNED_IN
    /\ authChecked = TRUE
    /\ isLoading = FALSE
    /\ error = NULL
    /\ profile = NullRec
    /\ readings \in TableArrays
    /\ form = [date |-> Date_2025_01_01, previous |-> << >>, current |-> << >>]
    /\ formErrors = NoErrors
    /\ profiles = << >>
    /\ dialog = 0
    /\ inflight = {}
    /\ nextReq = 0
    /\ sent = {}
    /\ added = << >>
    /\ last = [event |-> "mount", kind |-> "none"]

\* ReadingsTable rendered with the array: readings.sort(...) sorts it in
\* place, and the rows are mapped from it.
RenderTable ==
    /\ readings' = Sort(readings)
    /\ last' = Step("render", "table")
    /\ UNCHANGED << isSignedIn, authChecked, isLoading, error, profile, form, formErrors,
                    dialog, inflight, nextReq, sent, added, metaVars >>

NextTable == RenderTable

SpecTable == InitTable /\ [][NextTable]_vars

----------------------------------------------------------------------------
(* Dashboard *)

MsgSessionExpired == "Session expired, please sign in again"

\* error.includes("Session"), for the messages a page can set: the banner
\* then offers the link to /sign-in.
OffersSignIn(message) == message \in {MsgSessionExpired}

DashboardProfile(id, tenant) == [id |-> id, tenant_name |-> tenant]

StoredProfileLists ==
    { << >>,
      << DashboardProfile(9, "carol") >>,
      << DashboardProfile(8, "bob"), DashboardProfile(7, "alice") >>,
      << DashboardProfile(7, "alice"), DashboardProfile(8, "bob"),
         DashboardProfile(9, "carol") >> }

\* What GET /profiles can carry in its body: a list, or JSON that is no array.
ProfileBodies ==
    {[isArray |-> TRUE, items |-> l] : l \in StoredProfileLists}
    \cup {[isArray |-> FALSE, items |-> << >>]}

\* Array.isArray(data) ? data : []
ArrayOrEmpty(data) == IF data.isArray THEN data.items ELSE << >>

\* The dashboard has passed its two early returns and shows the profile list.
ListRendered ==
    /\ authChecked
    /\ isSignedIn = SIGNED_IN
    /\ ~isLoading
    /\ error = NULL

dashFrame == << values, parseResult, profile, readings, form, formErrors, added >>

\* useEffect, run at mount and again when the auth provider resolves
\* isSignedIn, up to its first await: an unknown signal ends it at once,
\* signed out sets the error, ends the loading and pushes /sign-in.
FetchProfiles(signedIn) ==
    /\ isSignedIn = UNDEF
    /\ signedIn = UNDEF => last.event = "mount"
    /\ isSignedIn' = signedIn
    /\ IF signedIn = UNDEF
       THEN /\ last' = Step("fetch-profiles", "pending")
            /\ UNCHANGED << page, authChecked, error, isLoading, inflight, nextReq >>
       ELSE /\ authChecked' = TRUE
            /\ IF signedIn # SIGNED_IN
               THEN /\ error' = "Please sign in to view your dashboard"
                    /\ isLoading' = FALSE
                    /\ page' = "/sign-in"
                    /\ last' = Step("fetch-profiles", "signed-out")
                    /\ UNCHANGED << inflight, nextReq >>
               ELSE /\ inflight' = inflight \cup
                           {[req |-> nextReq + 1, kind |-> "profiles", pc |-> "token"]}
                    /\ nextReq' = nextReq + 1
                    /\ last' = Step("fetch-profiles", "started")
                    /\ UNCHANGED << page, error, isLoading >>
    /\ sent' = {}
    /\ UNCHANGED << profiles, dialog, dashFrame >>

\* fetchProfiles, resumed after await getToken().
FetchProfilesToken(r, token) ==
    /\ r \in inflight /\ r.kind = "profiles" /\ r.pc = "token"
    /\ IF token = NULL
       THEN /\ error' = MsgNoToken
            /\ isLoading' = FALSE
            /\ inflight' = inflight \ {r}
            /\ sent' = {}
            /\ last' = Step("fetch-profiles-token", "no-token")
       ELSE /\ sent' = {Fetch(r.req, "GET", "/profiles", token, NoBody)}
            /\ inflight' = (inflight \ {r}) \cup {[r EXCEPT !.pc = "fetch"]}
            /\ last' = Step("fetch-profiles-token", "sent")
            /\ UNCHANGED << error, isLoading >>
    /\ UNCHANGED << isSignedIn, authChecked, profiles, nextReq, dialog, page, dashFrame >>

\* fetchProfiles asking again when the answer is not a success.
FetchProfilesResponse_Retries(r, resp, data) ==
    /\ r \in inflight /\ r.kind = "profiles" /\ r.pc = "fetch"
    /\ IF resp.kind = "ok"
       THEN /\ profiles' = ArrayOrEmpty(data)
            /\ error' = NULL
            /\ isLoading' = FALSE
            /\ inflight' = inflight \ {r}
       ELSE /\ error' = IF resp.kind = "throw" THEN resp.detail
                        ELSE IF resp.status = 401 THEN MsgSessionExpired
                        ELSE "Failed to fetch profiles"
            /\ inflight' = (inflight \ {r}) \cup {[r EXCEPT !.pc = "token"]}
            /\ UNCHANGED << profiles, isLoading >>
    /\ sent' = {}
    /\ last' = Answer("fetch-profiles-response", resp)
    /\ UNCHANGED << isSignedIn, authChecked, nextReq, dialog, page, dashFrame >>

\* fetchProfiles, resumed with the answer to GET /profiles.
FetchProfilesResponse(r, resp, data) ==
    /\ r \in inflight /\ r.kind = "profiles" /\ r.pc = "fetch"
    /\ IF resp.kind = "ok"
       THEN /\ profiles' = ArrayOrEmpty(data)
            /\ error' = NULL
       ELSE /\ error' = IF resp.kind = "throw" THEN resp.detail
                        ELSE IF resp.status = 401 THEN MsgSessionExpired
                        ELSE "Failed to fetch profiles"
            /\ UNCHANGED profiles
    /\ isLoading' = FALSE
    /\ inflight' = inflight \ {r}
    /\ sent' = {}
    /\ last' = Answer("fetch-profiles-response", resp)
    /\ UNCHANGED << isSignedIn, authChecked, nextReq, dialog, page, dashFrame >>

\* AlertDialogTrigger of a card: its confirmation opens.
OpenProfileDialog(profileId) ==
    /\ ListRendered
    /\ NoDialog
    /\ profileId \in Ids(profiles)
    /\ dialog' = profileId
    /\ last' = Step("open-dialog", "none")
    /\ sent' = {}
    /\ UNCHANGED << isSignedIn, authChecked, isLoading, error, profiles, inflight,
                    nextReq, page, dashFrame >>

\* AlertDialogCancel: the confirmation closes and nothing else happens.
CancelProfileDialog ==
    /\ ListRendered
    /\ dialog # 0
    /\ dialog' = 0
    /\ last' = Step("cancel-dialog", "none")
    /\ sent' = {}
    /\ UNCHANGED << isSignedIn, authChecked, isLoading, error, profiles, inflight,
                    nextReq, page, dashFrame >>

\* handleDeleteProfile removing the card before the backend has answered.
HandleDeleteProfile_Optimistic(profileId) ==
    /\ ListRendered
    /\ profileId \in Ids(profiles)
    /\ dialog = profileId
    /\ dialog' = 0
    /\ nextReq < MaxRequests
    /\ profiles' = Filter(profiles, profileId)
    /\ isLoading' = TRUE
    /\ error' = NULL
    /\ inflight' = inflight \cup
           {[req |-> nextReq + 1, kind |-> "delete-profile", pc |-> "token",
             profileId |-> profileId]}
    /\ nextReq' = nextReq + 1
    /\ sent' = {}
    /\ last' = Step("delete-profile", "started")
    /\ UNCHANGED << isSignedIn, authChecked, page, dashFrame >>

\* handleDeleteProfile leaving the loading flag alone, and the list on the
\* page.
HandleDeleteProfile_NoLoading(profileId) ==
    /\ ListRendered
    /\ profileId \in Ids(profiles)
    /\ dialog = profileId
    /\ dialog' = 0
    /\ nextReq < MaxRequests
    /\ error' = NULL
    /\ inflight' = inflight \cup
           {[req |-> nextReq + 1, kind |-> "delete-profile", pc |-> "token",
             profileId |-> profileId]}
    /\ nextReq' = nextReq + 1
    /\ sent' = {}
    /\ last' = Step("delete-profile", "started")
    /\ UNCHANGED << isSignedIn, authChecked, isLoading, profiles, page, dashFrame >>

\* AlertDialogAction of a card's confirmation: handleDeleteProfile up to its
\* first await. The list, and the confirmation with it, is unmounted while
\* isLoading is true.
HandleDeleteProfile(profileId) ==
    /\ ListRendered
    /\ profileId \in Ids(profiles)
    /\ dialog = profileId
    /\ dialog' = 0
    /\ nextReq < MaxRequests
    /\ isLoading' = TRUE
    /\ error' = NULL
    /\ inflight' = inflight \cup
           {[req |-> nextReq + 1, kind |-> "delete-profile", pc |-> "token",
             profileId |-> profileId]}
    /\ nextReq' = nextReq + 1
    /\ sent' = {}
    /\ last' = Step("delete-profile", "started")
    /\ UNCHANGED << isSignedIn, authChecked, profiles, page, dashFrame >>

\* handleDeleteProfile sending the DELETE with whatever getToken() gave.
DeleteProfileToken_Unchecked(r, token) ==
    /\ r \in inflight /\ r.kind = "delete-profile" /\ r.pc = "token"
    /\ sent' = {Fetch(r.req, "DELETE", "/profiles/{id}", token, [id |-> r.profileId])}
    /\ inflight' = (inflight \ {r}) \cup {[r EXCEPT !.pc = "fetch"]}
    /\ last' = Step("delete-profile-token", "sent")
    /\ UNCHANGED << error, isLoading >>
    /\ UNCHANGED << isSignedIn, authChecked, profiles, nextReq, dialog, page, dashFrame >>

\* handleDeleteProfile, resumed after await getToken().
DeleteProfileToken(r, token) ==
    /\ r \in inflight /\ r.kind = "delete-profile" /\ r.pc = "token"
    /\ IF token = NULL
       THEN /\ error' = MsgNoToken
            /\ isLoading' = FALSE
            /\ inflight' = inflight \ {r}
            /\ sent' = {}
            /\ last' = Step("delete-profile-token", "no-token")
       ELSE /\ sent' = {Fetch(r.req, "DELETE", "/profiles/{id}", token,
                              [id |-> r.profileId])}
            /\ inflight' = (inflight \ {r}) \cup {[r EXCEPT !.pc = "fetch"]}
            /\ last' = Step("delete-profile-token", "sent")
            /\ UNCHANGED << error, isLoading >>
    /\ UNCHANGED << isSignedIn, authChecked, profiles, nextReq, dialog, page, dashFrame >>

\* handleDeleteProfile with a catch block that drops what it caught.
DeleteProfileResponse_Swallows(r, resp) ==
    /\ r \in inflight /\ r.kind = "delete-profile" /\ r.pc = "fetch"
    /\ IF resp.kind = "ok"
       THEN /\ profiles' = Filter(profiles, r.profileId)
       ELSE /\ UNCHANGED profiles
    /\ error' = NULL
    /\ isLoading' = FALSE
    /\ inflight' = inflight \ {r}
    /\ sent' = {}
    /\ last' = Answer("delete-profile-response", resp)
    /\ UNCHANGED << isSignedIn, authChecked, nextReq, dialog, page, dashFrame >>

\* handleDeleteProfile, resumed with the answer to DELETE /profiles/{id}.
DeleteProfileResponse(r, resp) ==
    /\ r \in inflight /\ r.kind = "delete-profile" /\ r.pc = "fetch"
    /\ IF resp.kind = "ok"
       THEN /\ profiles' = Filter(profiles, r.profileId)
            /\ error' = NULL
       ELSE /\ error' = ErrorMessage(resp, "Failed to delete profile")
            /\ UNCHANGED profiles
    /\ isLoading' = FALSE
    /\ inflight' = inflight \ {r}
    /\ sent' = {}
    /\ last' = Answer("delete-profile-response", resp)
    /\ UNCHANGED << isSignedIn, authChecked, nextReq, dialog, page, dashFrame >>

InitDashboard ==
    /\ page = "/dashboard"
    /\ values = [date |-> << >>, previous |-> << >>, current |-> << >>]
    /\ parseResult = NullRec
    /\ InitPage

NextDashboard ==
    \/ \E signedIn \in AuthSignals : FetchProfiles(signedIn)
    \/ \E r \in Pending("profiles", "token"), token \in Tokens : FetchProfilesToken(r, token)
    \/ \E r \in Pending("profiles", "fetch"), resp \in Responses, data \in ProfileBodies :
           FetchProfilesResponse(r, resp, data)
    \/ \E id \in Ids(profiles) : OpenProfileDialog(id)
    \/ CancelProfileDialog
    \/ \E id \in Ids(profiles) : HandleDeleteProfile(id)
    \/ \E r \in Pending("delete-profile", "token"), token \in Tokens :
           DeleteProfileToken(r, token)
    \/ \E r \in Pending("delete-profile", "fetch"), resp \in Responses :
           DeleteProfileResponse(r, resp)

SpecDashboard == InitDashboard /\ [][NextDashboard]_vars

----------------------------------------------------------------------------
(* Add-profile page *)

\* What is typed into tenant_name and meter_number.
ProfileInputs == { << >>, << "a" >> }

\* formSchema: both fields z.string().min(1, ...).
ProfileSchema(v) == Len(v.tenant_name) >= 1 /\ Len(v.meter_number) >= 1

addFrame == << values, parseResult, authChecked, profile, readings, form,
               formErrors, profiles, dialog, added >>

\* useAuth() handing the page the resolved signal; the page renders the
\* form when it is signed in, the sign-in sentence otherwise.
UseAuth(signedIn) ==
    /\ isSignedIn = UNDEF
    /\ signedIn # UNDEF
    /\ isSignedIn' = signedIn
    /\ sent' = {}
    /\ last' = Step("use-auth", signedIn)
    /\ UNCHANGED << page, isLoading, error, inflight, nextReq, addFrame >>

\* The add-profile form with a submit button that is never disabled.
OnSubmitProfile_NeverDisabled(v) ==
    /\ isSignedIn = SIGNED_IN
    /\ nextReq < MaxRequests
    /\ IF ~ProfileSchema(v)
       THEN /\ last' = Step("submit-profile", "invalid")
            /\ UNCHANGED << isLoading, error, inflight, nextReq >>
       ELSE /\ isLoading' = TRUE
            /\ error' = NULL
            /\ inflight' = inflight \cup
                   {[req |-> nextReq + 1, kind |-> "create-profile", pc |-> "token",
                     values |-> v]}
            /\ nextReq' = nextReq + 1
            /\ last' = Step("submit-profile", "started")
    /\ sent' = {}
    /\ UNCHANGED << page, isSignedIn, addFrame >>

\* form.handleSubmit(onSubmit) from the rendered form, up to the first
\* await: the resolver stops values that fail the schema; onSubmit sets
\* the loading flag and clears the error (its sign-in check passes: the
\* form is rendered only when isSignedIn, and userId comes with it).
OnSubmitProfile(v) ==
    /\ isSignedIn = SIGNED_IN
    /\ ~isLoading
    /\ nextReq < MaxRequests
    /\ IF ~ProfileSchema(v)
       THEN /\ last' = Step("submit-profile", "invalid")
            /\ UNCHANGED << isLoading, error, inflight, nextReq >>
       ELSE /\ isLoading' = TRUE
            /\ error' = NULL
            /\ inflight' = inflight \cup
                   {[req |-> nextReq + 1, kind |-> "create-profile", pc |-> "token",
                     values |-> v]}
            /\ nextReq' = nextReq + 1
            /\ last' = Step("submit-profile", "started")
    /\ sent' = {}
    /\ UNCHANGED << page, isSignedIn, addFrame >>

\* onSubmit, resumed after await getToken().
CreateProfileToken(r, token) ==
    /\ r \in inflight /\ r.kind = "create-profile" /\ r.pc = "token"
    /\ IF token = NULL
       THEN /\ error' = MsgNoToken
            /\ isLoading' = FALSE
            /\ inflight' = inflight \ {r}
            /\ sent' = {}
            /\ last' = Step("create-profile-token", "no-token")
       ELSE /\ sent' = {Fetch(r.req, "POST", "/profiles", token,
                              [tenant_name |-> r.values.tenant_name,
                               meter_number |-> r.values.meter_number])}
            /\ inflight' = (inflight \ {r}) \cup {[r EXCEPT !.pc = "fetch"]}
            /\ last' = Step("create-profile-token", "sent")
            /\ UNCHANGED << error, isLoading >>
    /\ UNCHANGED << page, isSignedIn, nextReq, addFrame >>

\* onSubmit, resumed with the answer to POST /profiles: a response that is
\* not ok sets its detail or 'Failed to add profile'; an ok one pushes
\* /dashboard, whose page view then starts from its mount.
CreateProfileResponse(r, resp) ==
    /\ r \in inflight /\ r.kind = "create-profile" /\ r.pc = "fetch"
    /\ IF resp.kind = "ok"
       THEN /\ page' = "/dashboard"
            /\ isSignedIn' = UNDEF
            /\ isLoading' = TRUE
            /\ error' = NULL
            /\ inflight' = {}
            /\ nextReq' = 0
       ELSE /\ error' = IF resp.kind = "throw" THEN resp.detail
                        ELSE IF resp.detail # NULL THEN resp.detail
                        ELSE "Failed to add profile"
            /\ isLoading' = FALSE
            /\ inflight' = inflight \ {r}
            /\ UNCHANGED << page, isSignedIn, nextReq >>
    /\ sent' = {}
    /\ last' = Answer("create-profile-response", resp)
    /\ UNCHANGED addFrame

\* useState(false) for isLoading, useState(null) for error.
InitAddProfile ==
    /\ page = "/add-profile"
    /\ values = [date |-> << >>, previous |-> << >>, current |-> << >>]
    /\ parseResult = NullRec
    /\ isSignedIn = UNDEF
    /\ authChecked = FALSE
    /\ isLoading = FALSE
    /\ error = NULL
    /\ profile = NullRec
    /\ readings = << >>
    /\ form = [date |-> Date_2025_01_01, previous |-> << >>, current |-> << >>]
    /\ formErrors = NoErrors
    /\ profiles = << >>
    /\ dialog = 0
    /\ inflight = {}
    /\ nextReq = 0
    /\ sent = {}
    /\ added = << >>
    /\ last = [event |-> "mount", kind |-> "none"]

NextAddProfile ==
    \/ \E signedIn \in AuthSignals : UseAuth(signedIn)
    \/ \E tenant \in ProfileInputs, meter \in ProfileInputs :
           OnSubmitProfile([tenant_name |-> tenant, meter_number |-> meter])
    \/ \E r \in Pending("create-profile", "token"), token \in Tokens :
           CreateProfileToken(r, token)
    \/ \E r \in Pending("create-profile", "fetch"), resp \in Responses :
           CreateProfileResponse(r, resp)

----------------------------------------------------------------------------
(* A page view of any of the pages *)

Routes == {"/meter/[id]", "/dashboard", "/add-profile"}

InitPages ==
    \/ /\ page \in Routes \ {"/add-profile"}
       /\ values = [date |-> << >>, previous |-> << >>, current |-> << >>]
       /\ parseResult = NullRec
       /\ InitPage
    \/ InitAddProfile

\* What the meter detail page returns from its render: its early returns in
\* their order, then the page itself.
MeterView ==
    IF ~authChecked THEN "checking-auth"
    ELSE IF isSignedIn # SIGNED_IN THEN "signed-out"
    ELSE IF isLoading THEN "loading"
    ELSE IF error # NULL THEN "error"
    ELSE "ready"

\* What the dashboard returns from its render: its early returns, then the
\* page with the spinner, the error banner or the list.
DashboardView ==
    IF ~authChecked THEN "checking-auth"
    ELSE IF isSignedIn # SIGNED_IN THEN "signed-out"
    ELSE IF isLoading THEN "loading"
    ELSE IF error # NULL THEN "error"
    ELSE "ready"

\* What the add-profile page returns from its render: the sign-in sentence
\* when !isSignedIn, else the form, with its button disabled and spinning
\* while isLoading, and with the banner when there is an error.
AddProfileView ==
    IF isSignedIn # SIGNED_IN THEN "signed-out"
    ELSE IF isLoading THEN "loading"
    ELSE IF error # NULL THEN "error"
    ELSE "ready"

View ==
    IF page = "/meter/[id]" THEN MeterView
    ELSE IF page \in {"/dashboard", "/sign-in"} THEN DashboardView
    ELSE IF page = "/add-profile" THEN AddProfileView
    ELSE "none"

NextPages ==
    \/ page = "/meter/[id]" /\ NextMeter
    \/ page = "/dashboard" /\ NextDashboard
    \/ page = "/add-profile" /\ NextAddProfile

SpecPages == InitPages /\ [][NextPages]_vars

----------------------------------------------------------------------------
(* Properties of the validation *)

\* s is a decimal numeral: it denotes a non-negative integer.
IsNumeral(s) == s # << >> /\ \A i \in 1..Len(s) : s[i] \in Digits

NumeralValue(s) == DecimalValue(s, 0)

HasIssueOn(field) ==
    \E i \in 1..Len(parseResult.issues) : parseResult.issues[i].path = field

IsLeapYear(y) == (y % 4 = 0 /\ y % 100 # 0) \/ y % 400 = 0

DaysInMonth(y, m) ==
    IF m = 2 THEN (IF IsLeapYear(y) THEN 29 ELSE 28)
    ELSE IF m \in {4, 6, 9, 11} THEN 30 ELSE 31

\* s is an ISO 8601 calendar date YYYY-MM-DD: the pattern, and a month and a
\* day of that month that exist.
IsISODate(s) ==
    /\ Len(s) = 10
    /\ \A i \in {1, 2, 3, 4, 6, 7, 9, 10} : s[i] \in Digits
    /\ s[5] = "-" /\ s[8] = "-"
    /\ LET y == NumeralValue(SubSeq(s, 1, 4))
           m == NumeralValue(SubSeq(s, 6, 7))
           d == NumeralValue(SubSeq(s, 9, 10))
       IN  m \in 1..12 /\ d \in 1..DaysInMonth(y, m)

\* C1: with a well-formed date and previous, current both decimal numerals,
\* validation succeeds when current >= previous, and when current < previous
\* it fails with every issue on the field current (none on previous, none on
\* the form).
C1_OrderRule ==
    (/\ parseResult # NullRec
     /\ DateRegex(values.date)
     /\ IsNumeral(values.previous)
     /\ IsNumeral(values.current))
    => IF NumeralValue(values.current) >= NumeralValue(values.previous)
       THEN parseResult.success
       ELSE /\ ~parseResult.success
            /\ parseResult.issues # << >>
            /\ \A i \in 1..Len(parseResult.issues) :
                   parseResult.issues[i].path = "current"

C1_Witness ==
    /\ parseResult # NullRec
    /\ DateRegex(values.date)
    /\ IsNumeral(values.previous)
    /\ IsNumeral(values.current)
    /\ NumeralValue(values.current) < NumeralValue(values.previous)
    /\ ~parseResult.success
    /\ zodResolver(values)["current"] = MsgOrder

\* C2: a previous or current that is not a decimal numeral (empty, digits
\* followed by something else, negative) is rejected with an issue on that
\* same field.
C2_RejectsNonIntegers ==
    parseResult # NullRec =>
        \A f \in {"previous", "current"} :
            ~IsNumeral(values[f]) => HasIssueOn(f)

\* C3: a date passes only in the form YYYY-MM-DD, every other date gets an
\* issue on the field date, and the date of a validated record is an ISO
\* date.
C3_DateIsISO ==
    parseResult # NullRec =>
        /\ ~HasIssueOn("date") => DateRegex(values.date)
        /\ ~DateRegex(values.date) => HasIssueOn("date")
        /\ parseResult.success =>
               /\ parseResult.data.date = values.date
               /\ IsISODate(parseResult.data.date)

----------------------------------------------------------------------------
(* Properties of the meter detail page *)

Posts == {q \in sent : q.method = "POST"}

Deletes == {q \in sent : q.method = "DELETE"}

\* The handlers a step has started: those of its requests no earlier one has.
Started == {r \in inflight' : \A o \in inflight : o.req # r.req}

\* C4: a submission that fails validation sends nothing, calls neither
\* onAddReading nor setError, starts no handler and leaves the readings
\* alone; it shows inline errors on the fields.
C4_InvalidSubmitIsLocal ==
    [][(last'.event = "submit" /\ formSchema(form') # << >>)
       => /\ sent' = {}
          /\ added' = << >>
          /\ error' = error
          /\ readings' = readings
          /\ inflight' = inflight
          /\ formErrors' # NoErrors]_vars

C4_Witness ==
    /\ last = Step("submit", "invalid")
    /\ formErrors["current"] = MsgOrder
    /\ readings # << >>
    /\ sent = {}

\* C5: every POST /readings carries the profile's id, the date as it was
\* entered, and integers previous, current with 0 <= previous <= current.
C5_PayloadWellFormed ==
    \A q \in Posts :
        /\ q.path = "/readings"
        /\ q.body.profile_id = profile.id
        /\ q.body.date = form.date
        /\ q.body.previous \in Int
        /\ q.body.current \in Int
        /\ 0 <= q.body.previous
        /\ q.body.previous <= q.body.current

C5_Witness ==
    \E q \in Posts :
        /\ q.body.previous = 1
        /\ q.body.current = 12
        /\ q.body.date = Date_2025_01_01

\* C6: a valid submission for which getToken gives no token ends with the
\* authentication error handed to setError; nothing is sent, onAddReading is
\* not called, no field shows an error and the readings stay as they were.
C6_NoTokenIsPageError ==
    [][(last'.event = "submit" /\ last'.kind = "no-token")
       => /\ formSchema(form') = << >>
          /\ error' = MsgNoToken
          /\ formErrors' = NoErrors
          /\ sent' = {}
          /\ added' = << >>
          /\ inflight' = inflight
          /\ readings' = readings]_vars

C6_Witness ==
    /\ last = Step("submit", "no-token")
    /\ error = MsgNoToken
    /\ Posts = {}

\* C7: a successful POST calls onAddReading exactly once, with the reading
\* the backend returned, and resets the form to an empty current and to the
\* profile's initial_reading as previous (empty when it is null).
C7_ResetSeedsFromProfile ==
    [][(last'.event = "add-response" /\ last'.kind = "ok")
       => /\ Len(added') = 1
          /\ \E r \in inflight \ inflight' : \E c \in Consumptions(r) :
                 added'[1] = NewReading(r, c)
          /\ form'.current = << >>
          /\ form'.previous = Seed(profile')]_vars

\* C8: the add flow touches the readings only in onAddReading: a submission
\* and an unsuccessful answer to the POST leave them as they were, and a
\* reading appears in the list only in the step that calls onAddReading with
\* it.
C8_NoOptimisticAdd ==
    [][/\ (\/ last'.event = "submit"
           \/ (last'.event = "add-response" /\ last'.kind # "ok"))
          => readings' = readings
       /\ (Ids(readings') \ Ids(readings) # {} /\ last'.event # "load-readings")
          => /\ last'.event = "add-response" /\ last'.kind = "ok"
             /\ Len(added') = 1
             /\ Len(readings') = Len(readings) + 1
             /\ Range(readings') = Range(readings) \cup {added'[1]}]_vars

C8_Witness ==
    /\ last.event = "add-response"
    /\ last.kind = "fail"
    /\ error = "Failed to add reading: 500"
    /\ readings # << >>

\* C9: a reading leaves the list only in the step in which its DELETE is
\* answered with success; a DELETE that fails (response not ok, no token, an
\* exception) leaves the list as it was and sets the page's error.
C9_DeleteAfterSuccess ==
    [][/\ (Ids(readings) \ Ids(readings') # {})
          => /\ last'.event = "delete-response" /\ last'.kind = "ok"
             /\ \E r \in inflight \ inflight' :
                    /\ r.kind = "delete"
                    /\ readings' = Filter(readings, r.readingId)
       /\ (\/ (last'.event = "delete-response" /\ last'.kind # "ok")
           \/ (last'.event = "delete" /\ last'.kind = "no-token"))
          => /\ readings' = readings
             /\ error' # NULL]_vars

C9_Witness ==
    /\ last.event = "delete-response"
    /\ last.kind = "fail"
    /\ error = "Failed to delete reading: 500"
    /\ Len(readings) = 2

\* C16: a save with an input that is absent, negative or not a number does
\* nothing: the update handler does not run, nothing is sent, the error and
\* the profile stay; a save with a decimal numeral runs the handler with its
\* value, and what the handler sends is one PATCH carrying that value.
C16_BaselineSave ==
    [][last'.event = "save"
       => IF IsNumeral(last'.input)
          THEN /\ last'.kind # "rejected"
               /\ last'.kind = "sent"
                  => /\ Cardinality(sent') = 1
                     /\ \A q \in sent' :
                            /\ q.method = "PATCH"
                            /\ q.body.initial_reading = NumeralValue(last'.input)
                     /\ Cardinality(Started) = 1
                     /\ \A r \in Started : r.initialReading = NumeralValue(last'.input)
          ELSE /\ last'.kind = "rejected"
               /\ sent' = {}
               /\ inflight' = inflight
               /\ error' = error
               /\ profile' = profile]_vars

----------------------------------------------------------------------------
(* Properties of the readings table *)

\* The four bands, from the most to the least severe.
Bands == << ClassHighest, ClassHigh, ClassMedium, ClassNormal >>

C13_FourBands ==
    [][last'.event = "render"
       => LET rows == TableRows(readings)
          IN  \A j \in 1..Len(rows) :
                  LET c == rows[j].consumption
                      band == rows[j].className
                  IN  /\ Cardinality({k \in 1..4 : Bands[k] = band}) = 1
                      /\ band = ClassHighest <=> c >= 200
                      /\ band = ClassHigh <=> (150 <= c /\ c < 200)
                      /\ band = ClassMedium <=> (100 <= c /\ c < 150)
                      /\ band = ClassNormal <=> c < 100]_vars

C13_Witness ==
    /\ last.event = "render"
    /\ {readings[i].consumption : i \in 1..Len(readings)} = {99, 100, 150}

\* C14 as the code has it: a consumption of 199 is in the high band, below
\* the highest, and a consumption of exactly 200 is in the highest band.
C14_Boundary199And200 ==
    [][last'.event = "render"
       => LET rows == TableRows(readings)
          IN  \A j \in 1..Len(rows) :
                  /\ rows[j].consumption = 199 => rows[j].className = ClassHigh
                  /\ rows[j].consumption = 200 => rows[j].className = ClassHighest]_vars

C14_Witness ==
    /\ last.event = "render"
    /\ {199, 200} \subseteq {readings[i].consumption : i \in 1..Len(readings)}

\* C14 as stated: a consumption of 199 is in the medium band and a
\* consumption of exactly 200 is in the high band.
C14_AsStated ==
    [][last'.event = "render"
       => LET rows == TableRows(readings)
          IN  \A j \in 1..Len(rows) :
                  /\ rows[j].consumption = 199 => rows[j].className = ClassMedium
                  /\ rows[j].consumption = 200 => rows[j].className = ClassHigh]_vars

\* C15: rendering the table leaves the array it is given as it was: the same
\* elements in the same order.
C15_RenderLeavesArray ==
    [][last'.event = "render" => readings' = readings]_vars

----------------------------------------------------------------------------
(* Properties of the dashboard *)

\* C10: a profile leaves the dashboard's list only in the step in which its
\* DELETE /profiles/{id} is answered with success, and that step removes the
\* profile with that id and no other; starting the deletion, sending it and
\* a failed answer leave the list as it was.
C10_ProfileDeleteAfterSuccess ==
    [][/\ (\/ last'.event \in {"delete-profile", "delete-profile-token"}
           \/ (last'.event = "delete-profile-response" /\ last'.kind # "ok"))
          => profiles' = profiles
       /\ (Ids(profiles) \ Ids(profiles') # {})
          => /\ last'.event = "delete-profile-response" /\ last'.kind = "ok"
             /\ \E r \in inflight \ inflight' :
                    /\ r.kind = "delete-profile"
                    /\ Ids(profiles') = Ids(profiles) \ {r.profileId}
                    /\ \A i \in 1..Len(profiles') :
                           \E j \in 1..Len(profiles) : profiles'[i] = profiles[j]]_vars

C10_Witness ==
    /\ last.event = "delete-profile-response"
    /\ last.kind = "ok"
    /\ Ids(profiles) = {8}

----------------------------------------------------------------------------
(* Properties of both pages *)

\* C11: a delete handler (of a reading, of a profile) runs only in the step
\* that confirms the open confirmation, and for the id that confirmation is
\* of; every DELETE comes from such a handler; opening a confirmation and
\* cancelling it start no handler, send nothing and change no list and no
\* error.
C11_DeleteNeedsConfirm ==
    [][/\ last'.event \in {"delete", "delete-profile"} => dialog # 0
       /\ \A r \in Started :
              /\ r.kind = "delete"
                 => last'.event = "delete" /\ dialog # 0 /\ r.readingId = dialog
              /\ r.kind = "delete-profile"
                 => last'.event = "delete-profile" /\ dialog # 0 /\ r.profileId = dialog
       /\ \A q \in Deletes' :
              \/ last'.event = "delete" /\ q.body.id = dialog
              \/ \E r \in inflight :
                     r.kind = "delete-profile" /\ r.req = q.req /\ q.body.id = r.profileId
       /\ last'.event \in {"open-dialog", "cancel-dialog"}
          => /\ sent' = {}
             /\ inflight' = inflight
             /\ readings' = readings
             /\ profiles' = profiles
             /\ error' = error]_vars

C11_Witness ==
    /\ page = "/dashboard"
    /\ last = Step("delete-profile-token", "sent")
    /\ \E q \in Deletes : q.body.id = 8

\* C17: as long as isSignedIn is unknown, the dashboard and the meter page
\* have sent nothing, started no fetch, set no error, show the auth check
\* (not the signed-out text) and have not left for /sign-in; a fetch is
\* started or sent only when the user is signed in.
C17_UnknownAuthDoesNothing ==
    /\ (page \in {"/meter/[id]", "/dashboard", "/sign-in"} /\ isSignedIn = UNDEF)
       => /\ sent = {}
          /\ inflight = {}
          /\ nextReq = 0
          /\ error = NULL
          /\ View = "checking-auth"
          /\ page # "/sign-in"
    /\ (page \in {"/meter/[id]", "/dashboard", "/sign-in"}
        /\ (sent # {} \/ inflight # {} \/ nextReq > 0))
       => isSignedIn = SIGNED_IN

C17_Witness ==
    /\ page = "/meter/[id]"
    /\ isSignedIn = UNDEF
    /\ last = Step("effect", "pending")

\* C18: a fetch of the profiles (dashboard) or of the profile (meter page)
\* answered with status 401 sets the session-expired message, for which the
\* banner offers the link to sign in again; answered with another failure
\* status it sets another message.
C18_SessionExpiredOn401 ==
    [][(last'.event \in {"fetch-profiles-response", "load-profile"} /\ last'.kind = "fail")
       => IF last'.resp.status = 401
          THEN error' = MsgSessionExpired /\ OffersSignIn(error')
          ELSE error' # NULL /\ error' # MsgSessionExpired]_vars

\* The non-success answers to the eight operations, and the generic message
\* of each.
Generic ==
    [e \in {"create-profile-response", "fetch-profiles-response", "load-profile",
            "load-readings", "add-response", "delete-response",
            "delete-profile-response", "patch-response"} |->
        CASE e = "create-profile-response" -> "Failed to add profile"
          [] e = "fetch-profiles-response" -> "Failed to fetch profiles"
          [] e = "load-profile" -> "Failed to fetch profile"
          [] e = "load-readings" -> "Failed to fetch readings"
          [] e = "add-response" -> "Failed to add reading"
          [] e = "delete-response" -> "Failed to delete reading"
          [] e = "delete-profile-response" -> "Failed to delete profile"
          [] e = "patch-response" -> "Failed to update initial reading"]

\* C19: whichever of the eight operations is answered with a response that
\* is not a success, the error becomes the detail of the response when it
\* has one, and else the generic message of the operation with the status.
C19_DetailOrGenericWithStatus ==
    [][(last'.event \in DOMAIN Generic /\ last'.kind = "fail")
       => error' = IF last'.resp.detail # NULL THEN last'.resp.detail
                   ELSE Generic[last'.event] \o ": " \o ToString(last'.resp.status)]_vars

\* The transitions of the state machine as section 5 draws it, in what the
\* page shows: the resolved signed-in signal shows the loading at once.
StatedTransitions ==
    { << "checking-auth", "signed-out" >>, << "checking-auth", "loading" >>,
      << "loading", "error" >>, << "loading", "ready" >> }

\* What a user's operation adds once the page is loaded: deleting a profile
\* shows the dashboard's loading again; an operation of the meter page that
\* fails puts the error on the loaded page, and a later one clears it.
OperationTransitions ==
    [r \in {"/meter/[id]", "/dashboard"} |->
        IF r = "/dashboard" THEN { << "ready", "loading" >> }
        ELSE { << "ready", "error" >>, << "error", "ready" >> }]

AllowedPageStep ==
    page \in DOMAIN OperationTransitions
    => /\ (View' # View) =>
             (<< View, View' >> \in StatedTransitions \cup OperationTransitions[page])
       /\ (View' = "loading") => (isSignedIn' = SIGNED_IN /\ authChecked')
       /\ (View' \in {"error", "ready"} /\ View \notin {"error", "ready"}) =>
             (View = "loading")

FailureKinds == {"no-token", "fail", "throw"}

\* The steps the user takes, and the effect a page runs when it is mounted
\* or when the auth signal resolves.
UserEvents ==
    {"submit", "delete", "save", "delete-profile", "submit-profile", "open-dialog",
     "cancel-dialog"}

MountEvents == {"effect", "fetch-profiles", "use-auth"}

\* A step that ends a handler in failure leaves an error, no loading, no
\* request and no handler in its place; a handler is started, and the
\* loading entered, only by a step of the user or by the mount effect.
NoRetryStep ==
    page' = page
    => /\ (last'.kind \in FailureKinds) =>
             (/\ error' # NULL
              /\ ~isLoading'
              /\ sent' = {}
              /\ nextReq' = nextReq
              /\ inflight' \subseteq inflight)
       /\ (last'.kind \in FailureKinds /\ last'.event \notin UserEvents) =>
             (Cardinality(inflight') = Cardinality(inflight) - 1)
       /\ (nextReq' > nextReq \/ (isLoading' /\ ~isLoading)) =>
             (last'.event \in UserEvents \cup MountEvents)
       /\ (sent' # {} /\ last'.event \notin UserEvents) =>
             (\E r \in inflight : \A q \in sent' : q.req = r.req)

\* C21: no request is retried: a failed request sets the error and is
\* followed by no request and no loading of its own; only a step of the user
\* (or a fresh page view) starts another.
C21_NoAutomaticRetry == [][NoRetryStep]_vars

C21_Witness ==
    /\ page = "/dashboard"
    /\ last.event = "fetch-profiles-response"
    /\ last.kind = "fail"
    /\ error # NULL
    /\ ~isLoading
    /\ inflight = {}

\* After a step of this handler, the page offers the user the action the
\* handler belongs to: the card's delete button of the dashboard list, the
\* form, header and table of the meter page with buttons that are not
\* disabled, the form of the add-profile page. The loads have no action.
Resubmittable(event) ==
    CASE event \in {"delete-profile-token", "delete-profile-response"} ->
             \E id \in Ids(profiles) : ENABLED OpenProfileDialog(id)
      [] event \in {"submit", "add-response", "delete", "delete-response", "save",
                    "patch-response"} ->
             Rendered
      [] event \in {"create-profile-token", "create-profile-response"} ->
             isSignedIn = SIGNED_IN /\ ~isLoading
      [] OTHER -> TRUE

\* C22: after an operation has failed, on any of the three pages, the
\* loading flag is false and the user can start the failed action again on
\* the page as it is; a profile whose deletion failed can be deleted again.
C22_FailureLeavesInteractive ==
    (page \in Routes /\ last.kind \in FailureKinds)
    => (~isLoading /\ Resubmittable(last.event))

\* The message in the banner of the page, NULL when the page shows none: the
\* banner is part of what each page returns after its early returns.
Banner ==
    IF page = "/meter/[id]"
    THEN IF authChecked /\ isSignedIn = SIGNED_IN /\ ~isLoading THEN error ELSE NULL
    ELSE IF page = "/dashboard"
    THEN IF authChecked /\ isSignedIn = SIGNED_IN THEN error ELSE NULL
    ELSE IF page = "/add-profile"
    THEN IF isSignedIn = SIGNED_IN THEN error ELSE NULL
    ELSE NULL

\* A step in which an operation fails leaves a message, and the banner
\* shows it; the baseline input that is rejected is the one silent case.
ReportsFailureStep ==
    /\ (page' = page /\ last'.kind \in FailureKinds) =>
          (error' # NULL /\ Banner' = error')
    /\ (last'.kind = "rejected") => (error' = error /\ sent' = {})

\* C23: every operation that fails (no token, a response that is not a
\* success, a fetch or a body that throws) leaves the page's error set and
\* shown in the banner; only the rejected baseline input says nothing.
C23_NoSilentFailure == [][ReportsFailureStep]_vars

C23_Witness ==
    /\ page = "/meter/[id]"
    /\ last.event = "patch-response"
    /\ last.kind = "throw"
    /\ Banner = MsgNetwork

\* What a step hands to fetch carries a token that getToken() resolved to;
\* a handler that got no token sends nothing and waits for no answer; and
\* a request that is no GET is sent for a user who is signed in.
CarriesTokenStep ==
    /\ \A q \in sent' : q.token \in Tokens \ {NULL}
    /\ (last'.kind = "no-token") =>
          (/\ sent' = {}
           /\ {r \in inflight' : r.pc # "token"} \subseteq inflight)
    /\ (\E q \in sent' : q.method # "GET") =>
          (isSignedIn = SIGNED_IN /\ isSignedIn' = SIGNED_IN)

\* C24: every request carries a bearer token from the identity provider:
\* no operation sends a request when getToken() gives none, and no
\* mutation is sent while the user is signed out.
C24_EveryRequestCarriesToken == [][CarriesTokenStep]_vars

C24_Witness ==
    /\ page = "/dashboard"
    /\ last = Step("delete-profile-token", "sent")
    /\ \E q \in sent : q.method = "DELETE" /\ q.token = "token"

\* The handlers of one kind that have started and not ended.
InFlight(kind) == {r \in inflight : r.kind = kind}

\* C25 as stated: on every page the action stays on offer while a request
\* of its kind is in flight: the reading form while a POST /readings is,
\* the cards' delete buttons while a profile deletion is, the add-profile
\* form with its button while a profile creation is.
C25_AsStated ==
    /\ (page = "/meter/[id]" /\ InFlight("add") # {}) => Rendered
    /\ (page = "/dashboard" /\ InFlight("delete-profile") # {} /\ profiles # << >>)
       => ListRendered
    /\ (page = "/add-profile" /\ InFlight("create-profile") # {})
       => (isSignedIn = SIGNED_IN /\ ~isLoading)

\* On the meter page a submit, a confirmed delete or a save that gets its
\* token sends one request of its own, whatever is in flight, and leaves
\* the handlers in flight as they are; on the dashboard and the add-profile
\* page a deletion or a creation starts only when nothing is in flight.
ConcurrencyStep ==
    /\ (last'.event \in {"submit", "delete", "save"} /\ last'.kind = "sent") =>
          (/\ Cardinality(sent') = 1
           /\ \E r \in inflight' \ inflight :
                  /\ inflight' = inflight \cup {r}
                  /\ \A q \in inflight : q.req # r.req
                  /\ \A q \in sent' : q.req = r.req)
    /\ (last'.event \in {"delete-profile", "submit-profile"} /\ last'.kind = "started") =>
          (inflight = {} /\ ~isLoading /\ isLoading')
    /\ (page' \in {"/dashboard", "/add-profile"}) => (Cardinality(inflight') <= 1)
    /\ (page' = "/meter/[id]" /\ InFlight("add") # {}) => Rendered'

\* C25: the meter page applies no concurrency control: an action started
\* while a request of its kind is in flight sends its own additional
\* request; the dashboard and the add-profile page start no second deletion
\* or creation while one is in flight.
C25_ConcurrencyOnMeterPageOnly == [][ConcurrencyStep]_vars

C25_Witness ==
    /\ page = "/meter/[id]"
    /\ last = Step("submit", "sent")
    /\ Cardinality(InFlight("add")) = 2

\* C26: on no auth-gated page, the add-profile page included, is the
\* sign-in prompt of a signed-out user displayed while the auth signal is
\* still unknown.
C26_UnknownIsNotSignedOut ==
    (page \in Routes /\ isSignedIn = UNDEF) => View # "signed-out"

\* What a step does to the readings, taken as the set the list holds: an
\* answered POST adds the reading created, an answered DELETE takes out the
\* reading deleted, the load sets what was fetched, and no other step, and
\* no answer that is not a success, adds or loses a reading; the list never
\* holds a reading twice.
ReadingsStep ==
    /\ Len(readings') = Cardinality(Ids(readings'))
    /\ IF last'.event = "load-readings" THEN TRUE
       ELSE IF last'.event = "add-response" /\ last'.kind = "ok"
       THEN /\ Len(added') = 1
            /\ added'[1].id \notin Ids(readings)
            /\ Range(readings') = Range(readings) \cup {added'[1]}
       ELSE IF last'.event = "delete-response" /\ last'.kind = "ok"
       THEN \E r \in inflight \ inflight' :
                Range(readings') = {x \in Range(readings) : x.id # r.readingId}
       ELSE Range(readings') = Range(readings)

\* C27: whatever the interleaving of the add and delete requests in flight
\* and the order of their answers, the list ends as the readings fetched,
\* plus each reading created, minus each reading deleted: every answer is
\* applied to the list as it is when the answer arrives.
C27_NoLostOrDuplicatedReading == [][ReadingsStep]_vars

C27_Witness ==
    /\ last.event = "add-response"
    /\ last.kind = "ok"
    /\ InFlight("delete") # {}
    /\ Len(readings) = 3

\* C28: on the meter page, when a delete fails while an add or a baseline
\* update is in flight and that one then succeeds, the message of the
\* failure is still the page's error, and displayed, afterwards.
C28_FailureOutlivesOtherSuccess ==
    [][(/\ last.event \in {"delete", "delete-response"}
        /\ last.kind \in FailureKinds
        /\ last'.event \in {"add-response", "patch-response"}
        /\ last'.kind = "ok")
       => (error' = error /\ Banner' = error)]_vars

\* A step of the load of the meter page: the readings are asked for by the
\* step that got the profile, and by no other; a profile fetch that fails
\* leaves no profile, no readings and nothing rendered but the banner; a
\* readings fetch that fails leaves the profile, the banner and no
\* readings; and when no load is in flight any more the loading is over.
LoadStep ==
    /\ (\E q \in sent' : q.path = "/readings?profile_id={id}") =>
          (last'.event = "load-profile" /\ last'.kind = "ok" /\ profile' # NullRec)
    /\ (profile = NullRec /\ profile' # NullRec) =>
          (last'.event = "load-profile" /\ last'.kind = "ok")
    /\ ((last'.event = "load-profile" /\ last'.kind # "ok")
        \/ last' = Step("load-token", "no-token")) =>
          (/\ profile' = NullRec
           /\ readings' = << >>
           /\ ~Rendered'
           /\ sent' = {}
           /\ error' # NULL /\ Banner' = error')
    /\ (last'.event = "load-readings" /\ last'.kind # "ok") =>
          (/\ profile' # NullRec
           /\ readings' = << >>
           /\ error' # NULL /\ Banner' = error')
    /\ (authChecked' /\ {r \in inflight' : r.kind = "load"} = {}) => ~isLoading'
    /\ (isLoading /\ ~isLoading') =>
          (last'.event \in {"effect", "load-token", "load-profile", "load-readings"})

\* C29: the load of the meter page fetches the profile, then the readings:
\* the readings are requested only after the profile has been fetched; a
\* failed profile fetch leaves the profile null, the readings empty and the
\* header, form and table unrendered; a failed readings fetch leaves the
\* profile set, the error shown and the readings empty; the loading flag
\* is false once the load has ended, however it ended.
C29_ProfileBeforeReadings == [][LoadStep]_vars

C29_Witness ==
    /\ last.event = "load-readings"
    /\ last.kind = "fail"
    /\ profile # NullRec
    /\ readings = << >>
    /\ Banner = "Failed to fetch readings: 500"
    /\ ~isLoading

\* C30: the dashboard renders the profile list only when it is not loading
\* and has no error; so while the fetch of the profiles or a deletion is in
\* flight the list, its delete buttons and their confirmation are not on
\* the page, no deletion starts, and at most one DELETE /profiles/{id} is in
\* flight at any time.
C30_OneProfileDeletionAtATime ==
    page = "/dashboard"
    => /\ (inflight # {}) => (isLoading /\ ~ListRendered /\ dialog = 0)
       /\ (dialog # 0) => (ListRendered /\ inflight = {})
       /\ Cardinality(InFlight("profiles") \cup InFlight("delete-profile")) <= 1
       /\ \A id \in Ids(profiles) :
              (ENABLED OpenProfileDialog(id)) => (~isLoading /\ error = NULL)

C30_Witness ==
    /\ page = "/dashboard"
    /\ \E r \in InFlight("delete-profile") : r.pc = "fetch"
    /\ Len(profiles) = 3
    /\ ~ListRendered

====
